---- MODULE Spec2Model ----
(***************************************************************************)
(* A model of src/admixture.py (PCAngsd, admixture estimation by NMF):     *)
(*   admixNMF      - one fit: shuffle, initialise, batched accelerated     *)
(*                   multiplicative updates, convergence check, finalise   *)
(*   logLike_admix - the threaded log-likelihood reduction                 *)
(*   alphaSearch   - the adaptive search over the regularisation alpha     *)
(***************************************************************************)
(* Numbers.  Q and F are float32 in the code; here an entry is an integer  *)
(* number of units of 1/Scale, and a division rounds down to a whole unit. *)
(* The quotients A/FB and A/(QB + alpha) of the update rules depend on the *)
(* data X and on alpha, which are inputs: each sweep over the batches      *)
(* draws them from a small set of non-negative ratio patterns (Profiles).  *)
(***************************************************************************)
EXTENDS Integers, Sequences, FiniteSets, TLC

VARIABLES
    \* ---- alphaSearch (src/admixture.py:147-218) ----
    pcS,        \* position in alphaSearch
    aEnd,       \* argument: upper search bound
    depth,      \* argument: search depth
    aMin, aMax, aMid, aStep,
    argL, aBest, L_best, Q_best, F_best,
    d,          \* loop variable of "for d in range(2, depth+1)"
    runs,       \* every admixNMF call made so far, in order
    \* ---- admixNMF (src/admixture.py:62-144) ----
    pc,         \* position in admixNMF
    m, n, K,    \* individuals, sites, ancestral components
    batch, iter, tole, threads,     \* arguments
    shuffleX,   \* the permutation of the sites drawn at line 67
    X,          \* the columns of X, each named by the input site it holds
    Q, prevQ, F,
    chunk_N, chunks, batch_N, bIndex,
    iteration,  \* loop variable of the outer loop
    bpos,       \* position in bIndex of the batch being swept (1-based)
    stage,      \* "F" or "Q": which acceleration loop the batch is in
    inner,      \* loop variable of the acceleration loop
    F_init, Q_init,     \* squared norm of the first inner step's change
    diff,       \* squared distance of Q to prevQ at the last check
    assigned,   \* which of the locals A, B, F_prev, Q_prev are bound
    quot,       \* the pattern of the update quotients in the current sweep
    \* history of the fit, for stating its properties
    Qclamp,     \* Q as updateQ left it, before the row normalisation
    touched,    \* rows of F that updateF has updated
    fitSite,    \* fitSite[j]: the input site whose column row j of F fits
    sweeps,     \* number of completed sweeps over all batches
    diffs,      \* per completed sweep: the squared distance of Q to prevQ
    visited,    \* the blocks <<b, bEnd>> of the current sweep, in order
    \* ---- logLike_admix (src/admixture.py:16-40) ----
    pcL,        \* position of the calling thread in logLike_admix
    started,    \* number of threads started so far
    joined,     \* number of threads joined so far
    wstate,     \* per thread: "new", "running" or "finished"
    ind, site,  \* per thread: loop variables ind and s of logLike_admixInner
    held,       \* per thread: the value of L[ind] read for "+=", or -1
    logLike_inds,   \* the shared per-individual accumulator L
    total,      \* the value returned, np.sum(logLike_inds)
    writers     \* per individual: the threads that have written its slot

searchVars == <<pcS, aEnd, depth, aMin, aMax, aMid, aStep, argL, aBest,
                L_best, Q_best, F_best, d, runs>>

nmfVars == <<pc, m, n, K, batch, iter, tole, threads, shuffleX, X, Q, prevQ,
             F, chunk_N, chunks, batch_N, bIndex, iteration, bpos, stage,
             inner, F_init, Q_init, diff, assigned, quot, Qclamp, touched,
             fitSite, sweeps, diffs, visited>>

llVars == <<pcL, started, joined, wstate, ind, site, held, logLike_inds,
            total, writers>>

vars == <<searchVars, nmfVars, llVars>>

(***************************************************************************)
(* Bounds of the model.                                                    *)
(***************************************************************************)
MaxDepth == 3       \* largest search depth tried
MaxEnd == 1         \* aEnd ranges over 0..MaxEnd (in whole units)
MaxL == 2           \* log-likelihoods returned by a fit range over 0..MaxL
MaxK == 3           \* admixNMF: K ranges over 2..MaxK
MaxBatch == 2       \* admixNMF: batch ranges over 1..MaxBatch
MaxIter == 2        \* admixNMF: iter ranges over 0..MaxIter
MaxShuffle == 4     \* admixNMF: n when every permutation is tried
MaxSites == 6       \* admixNMF: n when every batch count is tried
MaxInd == 3         \* logLike_admix: m ranges over 1..MaxInd
MaxThreads == 3     \* logLike_admix: threads ranges over 1..MaxThreads
MaxLLSites == 2     \* logLike_admix: n ranges over 1..MaxLLSites

RECURSIVE Pow2(_)
Pow2(k) == IF k = 0 THEN 1 ELSE 2 * Pow2(k - 1)

\* Alphas are binary fractions of aEnd: aEnd/2, aEnd/4, ... down to
\* aEnd/2^(depth+1).  They are held as integers in units of 1/AlphaUnit, so
\* that every halving the search performs is exact, as it is in binary
\* floating point.
AlphaUnit == Pow2(MaxDepth + 1)

(***************************************************************************)
(* Arithmetic helpers.                                                     *)
(***************************************************************************)
Min(a, b) == IF a < b THEN a ELSE b
Max(a, b) == IF a > b THEN a ELSE b
Abs(a) == IF a < 0 THEN -a ELSE a

RECURSIVE SumSeq(_)
SumSeq(q) == IF q = <<>> THEN 0 ELSE q[1] + SumSeq(Tail(q))

\* int(np.ceil(float(a)/b)) for a >= 0, b >= 1 (lines 77, 81).
CeilDiv(a, b) == (a + b - 1) \div b

\* 1e-4, the clamp of updateF and updateQ (lines 49-50, 58-59), in units.
Eps == 2
Scale == 10000 * Eps        \* 1.0 in units

(***************************************************************************)
(* The update kernels.                                                     *)
(***************************************************************************)

\* max(x, 1e-4) then min(x, 1-(1e-4)) (lines 49-50 and 58-59).
ClampMutUnit(x) == Min(Max(x, 0), Scale)
Clamp(x) == Min(Max(x, Eps), Scale - Eps)

\* updateF (lines 44-50) on the rows of one batch: R[s][k] = <<num, den>> is
\* the quotient A[s,k]/FB[s,k].
UpdateF(Fb, R) ==
    [s \in DOMAIN Fb |->
        [k \in DOMAIN Fb[s] |->
            Clamp((Fb[s][k] * R[s][k][1]) \div R[s][k][2])]]

\* updateQ (lines 53-59): R[i][k] is the quotient A[i,k]/(QB[i,k] + alpha).
UpdateQ(Qm, R) ==
    [i \in DOMAIN Qm |->
        [k \in DOMAIN Qm[i] |->
            Clamp((Qm[i][k] * R[i][k][1]) \div R[i][k][2])]]

\* Q /= np.sum(Q, axis=1, keepdims=True) (lines 72, 113).
NormaliseRowsMutSkip(Qm) == Qm
NormaliseRows(Qm) ==
    [i \in DOMAIN Qm |->
        [k \in DOMAIN Qm[i] |-> (Qm[i][k] * Scale) \div SumSeq(Qm[i])]]

\* The quotient patterns a sweep may meet.  "keep": every quotient is
\* 1 (a fixed point).  "first": the quotient is 0 in the first column and
\* huge in the others.  "last": 0 in the last column, huge in the others.
Profiles == {"keep", "first", "last"}

Quotient(p, k, cols) ==
    CASE p = "keep" -> <<1, 1>>
      [] p = "first" -> IF k = 1 THEN <<0, 1>> ELSE <<Scale, 1>>
      [] p = "last" -> IF k = cols THEN <<0, 1>> ELSE <<Scale, 1>>

Quotients(p, rows, cols) ==
    [i \in 1..rows |-> [k \in 1..cols |-> Quotient(p, k, cols)]]

(***************************************************************************)
(* Norms.  The squared distance of two matrices is held as a pair          *)
(* [h, l] that stands for 4*h + l, so that it stays within 32 bits.        *)
(***************************************************************************)
SqParts(x) == LET a == Abs(x) IN
    [h |-> (a \div 2) * (a \div 2) + (a \div 2) * (a % 2), l |-> a % 2]

\* Sum over all entries of (A - B)^2.
SqDist(A, B) ==
    LET rows == Len(A)
        cols == IF rows = 0 THEN 0 ELSE Len(A[1])
        part(j) == SqParts(A[((j - 1) \div cols) + 1][((j - 1) % cols) + 1]
                         - B[((j - 1) \div cols) + 1][((j - 1) % cols) + 1])
    IN  [h |-> SumSeq([j \in 1..(rows * cols) |-> part(j).h]),
         l |-> SumSeq([j \in 1..(rows * cols) |-> part(j).l])]

\* frobenius(cur) <= 0.1 * frobenius(first) (lines 104, 118), on the squared
\* norms: 100 * cur <= first.
WithinTenth(cur, first) ==
    LET t == (first.h + first.l \div 4) \div 25      \* floor(first / 100)
    IN  t >= cur.l /\ cur.h <= (t - cur.l) \div 4

\* rmse2d_float32(Q, prevQ) < tole (lines 122, 125), on the squared
\* distance dd over count entries: dd < tole^2 * count.
BelowToleMutAbove(dd, count, t) ==
    LET x == t * t * count IN ~(x >= 1 + dd.l /\ dd.h <= (x - 1 - dd.l) \div 4)
BelowTole(dd, count, t) ==
    LET x == t * t * count IN x >= 1 + dd.l /\ dd.h <= (x - 1 - dd.l) \div 4

(***************************************************************************)
(* alphaSearch                                                             *)
(***************************************************************************)

\* The comparison "L_test > L_best" that decides whether a fit replaces the
\* best one (lines 161, 168, 186, 194, 202).
BetterMut(L_test, best) == L_test < best
Better(L_test, best) == L_test > best

\* "aStep /= 2.0" (line 209).
HalveStep(step) == step \div 2

\* The re-centring of the interval after a round (lines 173-179, 210-216).
\* zero is the test the code makes: "argL == 0" after the first search,
\* "aMin == 0" in the refinement loop.
RecenterMutWide(zero, lo, mid, hi, step, arg) ==
    IF zero
    THEN [aMin |-> lo, aMax |-> mid, aMid |-> mid \div 2]
    ELSE LET c == <<lo, mid, hi>>[arg + 1]
         IN  [aMin |-> c - step, aMax |-> c + 4 * step, aMid |-> c]
RecenterMutNoHalf(zero, lo, mid, hi, step, arg) ==
    IF zero
    THEN [aMin |-> lo, aMax |-> mid, aMid |-> mid]
    ELSE LET c == <<lo, mid, hi>>[arg + 1]
         IN  [aMin |-> c - step, aMax |-> c + step, aMid |-> c]
Recenter(zero, lo, mid, hi, step, arg) ==
    IF zero
    THEN [aMin |-> lo, aMax |-> mid, aMid |-> mid \div 2]
    ELSE LET c == <<lo, mid, hi>>[arg + 1]
         IN  [aMin |-> c - step, aMax |-> c + step, aMid |-> c]

\* One call of admixNMF(indF, K, likeMatrix, alpha, ...) made by the search:
\* the fit is recorded with the alpha it was given, the log-likelihood it
\* returned, the round it belongs to (1 = the first search) and which of the
\* three candidates it was; lb0 records whether aMin was 0 when the fit was
\* made.  The matrices Q and F a fit returns are
\* identified by the number of the fit.
FitRecord(alpha, L, round, role, lb0) ==
    [alpha |-> alpha, L |-> L, round |-> round, role |-> role, lb0 |-> lb0]

Likes == 0..MaxL

SearchInit ==
    /\ pcS = "fit_min"
    /\ aEnd \in {k * AlphaUnit : k \in 0..MaxEnd}
    /\ depth \in 1..MaxDepth
    /\ aMin = 0
    /\ aMax = aEnd
    /\ aMid = (0 + aEnd) \div 2
    /\ aStep = (0 + aEnd) \div 4
    /\ argL = 0 /\ aBest = 0 /\ L_best = 0 /\ Q_best = 0 /\ F_best = 0
    /\ d = 2
    /\ runs = <<>>

\* Lines 154-157: the fit at aMin = 0 is the first best.
SearchFitMin ==
    /\ pcS = "fit_min"
    /\ \E L \in Likes :
        /\ runs' = Append(runs, FitRecord(aMin, L, 1, "min", aMin = 0))
        /\ L_best' = L
        /\ Q_best' = Len(runs) + 1
        /\ F_best' = Len(runs) + 1
    /\ argL' = 0
    /\ aBest' = aMin
    /\ pcS' = "fit_mid"
    /\ UNCHANGED <<aEnd, depth, aMin, aMax, aMid, aStep, d>>
    /\ UNCHANGED <<nmfVars, llVars>>

\* Lines 159-164.
SearchFitMid ==
    /\ pcS = "fit_mid"
    /\ \E L \in Likes :
        /\ runs' = Append(runs, FitRecord(aMid, L, 1, "mid", aMin = 0))
        /\ IF Better(L, L_best)
           THEN /\ L_best' = L
                /\ Q_best' = Len(runs) + 1
                /\ F_best' = Len(runs) + 1
                /\ argL' = 1
                /\ aBest' = aMid
           ELSE UNCHANGED <<L_best, Q_best, F_best, argL, aBest>>
    /\ pcS' = "fit_max"
    /\ UNCHANGED <<aEnd, depth, aMin, aMax, aMid, aStep, d>>
    /\ UNCHANGED <<nmfVars, llVars>>

\* Lines 166-179: the third fit of the first search and the re-centring.
SearchFitMax ==
    /\ pcS = "fit_max"
    /\ \E L \in Likes :
        /\ runs' = Append(runs, FitRecord(aMax, L, 1, "max", aMin = 0))
        /\ IF Better(L, L_best)
           THEN /\ L_best' = L
                /\ Q_best' = Len(runs) + 1
                /\ F_best' = Len(runs) + 1
                /\ argL' = 2
                /\ aBest' = aMax
           ELSE UNCHANGED <<L_best, Q_best, F_best, argL, aBest>>
    /\ LET r == Recenter(argL' = 0, aMin, aMid, aMax, aStep, argL')
       IN  /\ aMin' = r.aMin
           /\ aMax' = r.aMax
           /\ aMid' = r.aMid
    /\ pcS' = "round"
    /\ UNCHANGED <<aEnd, depth, aStep, d>>
    /\ UNCHANGED <<nmfVars, llVars>>

\* Lines 209-216: the end of a refinement round, with argL as the round
\* left it.
EndRound(arg) ==
    /\ aStep' = HalveStep(aStep)
    /\ LET r == Recenter(aMin = 0, aMin, aMid, aMax, aStep', arg)
       IN  /\ aMin' = r.aMin
           /\ aMax' = r.aMax
           /\ aMid' = r.aMid
    /\ d' = d + 1
    /\ pcS' = "round"

\* Lines 183-189, 209-216: a round whose lower bound is 0 fits the midpoint.
RoundZero ==
    /\ pcS = "round"
    /\ d <= depth
    /\ aMin = 0
    /\ \E L \in Likes :
        /\ runs' = Append(runs, FitRecord(aMid, L, d, "mid", aMin = 0))
        /\ IF Better(L, L_best)
           THEN /\ L_best' = L
                /\ Q_best' = Len(runs) + 1
                /\ F_best' = Len(runs) + 1
                /\ argL' = 1
                /\ aBest' = aMid
           ELSE UNCHANGED <<L_best, Q_best, F_best, argL, aBest>>
    /\ EndRound(argL')
    /\ UNCHANGED <<aEnd, depth>>
    /\ UNCHANGED <<nmfVars, llVars>>

\* Lines 191-198 (and 209-216 when the fit at aMin is the new best).
RoundMin ==
    /\ pcS = "round"
    /\ d <= depth
    /\ aMin # 0
    /\ \E L \in Likes :
        /\ runs' = Append(runs, FitRecord(aMin, L, d, "min", aMin = 0))
        /\ IF Better(L, L_best)
           THEN /\ L_best' = L
                /\ Q_best' = Len(runs) + 1
                /\ F_best' = Len(runs) + 1
                /\ argL' = 0
                /\ aBest' = aMin
                /\ EndRound(0)
           ELSE /\ pcS' = "round_max"
                /\ UNCHANGED <<L_best, Q_best, F_best, argL, aBest,
                               aMin, aMax, aMid, aStep, d>>
    /\ UNCHANGED <<aEnd, depth>>
    /\ UNCHANGED <<nmfVars, llVars>>

\* Lines 199-216: the fit at aMin was not better, so aMax is fitted.
RoundMax ==
    /\ pcS = "round_max"
    /\ \E L \in Likes :
        /\ runs' = Append(runs, FitRecord(aMax, L, d, "max", aMin = 0))
        /\ IF Better(L, L_best)
           THEN /\ L_best' = L
                /\ Q_best' = Len(runs) + 1
                /\ F_best' = Len(runs) + 1
                /\ argL' = 2
                /\ aBest' = aMax
           ELSE /\ argL' = 1
                /\ UNCHANGED <<L_best, Q_best, F_best, aBest>>
    /\ EndRound(argL')
    /\ UNCHANGED <<aEnd, depth>>
    /\ UNCHANGED <<nmfVars, llVars>>

\* Line 218: return Q_best, F_best, aBest.
SearchReturn ==
    /\ pcS = "round"
    /\ d > depth
    /\ pcS' = "returned"
    /\ UNCHANGED <<aEnd, depth, aMin, aMax, aMid, aStep, argL, aBest,
                   L_best, Q_best, F_best, d, runs>>
    /\ UNCHANGED <<nmfVars, llVars>>

SearchNext ==
    \/ SearchFitMin
    \/ SearchFitMid
    \/ SearchFitMax
    \/ RoundZero
    \/ RoundMin
    \/ RoundMax
    \/ SearchReturn

(***************************************************************************)
(* admixNMF                                                                *)
(***************************************************************************)

\* np.random.permutation(n) (line 67): the permutations of the sites 1..n.
PermutationsOf(k) ==
    {p \in [1..k -> 1..k] : \A i, j \in 1..k : p[i] = p[j] => i = j}

\* Two of them stand for the draw where the fit itself is followed: the
\* identity and the rotation by one site.
ShuffleDraws(k) ==
    { [j \in 1..k |-> j], [j \in 1..k |-> (j % k) + 1] }

\* A[idx] for an index array idx (lines 68, 133, 134): position j of the
\* result holds A[idx[j]].
Reindex(A, idx) == [j \in 1..Len(idx) |-> A[idx[j]]]

\* np.argsort(p): position r holds the index of the r-th smallest entry.
ArgSortMutIdentity(p) == p
ArgSort(p) ==
    [r \in 1..Len(p) |->
        CHOOSE j \in 1..Len(p) :
            Cardinality({i \in 1..Len(p) :
                p[i] < p[j] \/ (p[i] = p[j] /\ i < j)}) = r - 1]

\* chunk_N and chunks (lines 77-78): chunk starts, 0-based.
ChunkNMutFloor(mm, t) == mm \div t
ChunkN(mm, t) == CeilDiv(mm, t)
Chunks(mm, t) == [i \in 1..t |-> (i - 1) * ChunkN(mm, t)]

\* batch_N and bIndex = np.arange(0, n, batch_N) (lines 81-82): batch
\* starts, 0-based.
BatchNMutFloorPlusOne(nn, bb) == nn \div bb + 1
BatchN(nn, bb) == CeilDiv(nn, bb)
BIndex(nn, bN) == [j \in 1..CeilDiv(nn, bN) |-> (j - 1) * bN]

\* bEnd = min(b + batch_N, n) (line 87).
BEnd(b, bN, nn) == Min(b + bN, nn)

\* pF and pQ (lines 91-92), with Python 2's integer division.
PF(mm, nInner, kk) == 2 * (1 + (mm * nInner + mm * kk) \div (nInner * kk + nInner))
PQ(mm, nInner, kk) == 2 * (1 + (mm * nInner + nInner * kk) \div (mm * kk + mm))

\* np.random.rand(m, K) (line 71): two draws stand for the random matrix,
\* an even one and one that is close to 0 off a diagonal.
RandomDraws(mm, kk) ==
    { [i \in 1..mm |-> [k \in 1..kk |-> Scale \div 2]],
      [i \in 1..mm |-> [k \in 1..kk |->
            IF k = ((i - 1) % kk) + 1 THEN Scale - 1 ELSE 1]] }

\* The least-squares F of line 74 is not clamped and depends on X: two
\* values stand for it, one inside [0, 1] and one that leaves it.
LeastSquares(nn, kk) ==
    { [s \in 1..nn |-> [k \in 1..kk |-> Scale \div 2]],
      [s \in 1..nn |-> [k \in 1..kk |->
            IF (s + k) % 2 = 0 THEN 0 ELSE Scale + Scale \div 2]] }

\* The tolerances tried: 0, 5e-5 (the default) and 1/2.
Toles == {0, 1, Scale \div 2}

\* Lines 63-82: the state in which the outer loop is entered, for given
\* arguments and given draws of the random permutation, of the random
\* matrix and of the data.
FitInit(kk, mm, nn, bb, it, tl, perm, raw, f0, q0) ==
    /\ K = kk
    /\ m = mm
    /\ n = nn
    /\ batch = bb
    /\ iter = it
    /\ tole = tl
    /\ threads = 1
    /\ shuffleX = perm
    /\ X = Reindex([s \in 1..nn |-> s], perm)
    /\ Q = NormaliseRows(raw)
    /\ prevQ = Q
    /\ F = f0
    /\ fitSite = X
    /\ chunk_N = ChunkN(mm, 1)
    /\ chunks = Chunks(mm, 1)
    /\ batch_N = BatchN(nn, bb)
    /\ bIndex = BIndex(nn, batch_N)
    /\ iteration = 1
    /\ bpos = 1
    /\ stage = "F"
    /\ inner = 0
    /\ F_init = [h |-> 0, l |-> 0]
    /\ Q_init = [h |-> 0, l |-> 0]
    /\ diff = [h |-> 0, l |-> 0]
    /\ assigned = {"prevQ"}
    /\ quot = q0
    /\ Qclamp = <<>>
    /\ touched = {}
    /\ sweeps = 0
    /\ diffs = <<>>
    /\ visited = <<>>
    /\ pc = IF it >= 1 THEN "sweep" ELSE "del"

\* A fit with K <= min(m, n): small dimensions, every argument varied.
NmfInit ==
    \E kk \in 2..MaxK, bb \in 1..MaxBatch, it \in 0..MaxIter, tl \in Toles,
       q0 \in Profiles :
    \E nn \in {kk, kk + 1} :
    \E perm \in ShuffleDraws(nn), raw \in RandomDraws(kk, kk),
       f0 \in LeastSquares(nn, kk) :
        FitInit(kk, kk, nn, bb, it, tl, perm, raw, f0, q0)

\* A fit of one sweep for every permutation of up to MaxShuffle sites.
ShuffleInit ==
    \E nn \in 2..MaxShuffle, bb \in 1..2, q0 \in {"keep", "first"} :
    \E perm \in PermutationsOf(nn), raw \in RandomDraws(2, 2),
       f0 \in LeastSquares(nn, 2) :
        FitInit(2, 2, nn, bb, 1, 1, perm, raw, f0, q0)

\* A fit of one sweep for every site count up to MaxSites and every batch
\* count up to one more than that.
BatchInit ==
    \E nn \in 1..MaxSites, bb \in 1..(MaxSites + 1), q0 \in {"keep", "first"} :
    \E raw \in RandomDraws(2, 2), f0 \in LeastSquares(nn, 2) :
        FitInit(2, 2, nn, bb, 1, 1, [s \in 1..nn |-> s], raw, f0, q0)

\* The rows of F of the batch at position bpos: Fbatch = F[b:bEnd] (line 89),
\* as 1-based row numbers of F.
BatchRows(pos) ==
    (bIndex[pos] + 1)..BEnd(bIndex[pos], batch_N, n)

\* Lines 86-105: one step of the acceleration loop of the F-update of the
\* current batch (the first step also slices the batch and computes A, B).
FStep ==
    /\ pc = "sweep"
    /\ stage = "F"
    /\ LET b == bIndex[bpos]
           bEnd == BEnd(b, batch_N, n)
           nInner == bEnd - b
           Fbatch == [s \in 1..nInner |-> F[b + s]]
       IN  LET new == UpdateF(Fbatch, Quotients(quot, nInner, K))
               change == SqDist(new, Fbatch)
               last == \/ inner + 1 >= PF(m, nInner, K)
                       \/ (inner > 0 /\ WithinTenth(change, F_init))
           IN  /\ F' = [s \in 1..n |->
                            IF s \in BatchRows(bpos) THEN new[s - b] ELSE F[s]]
               /\ F_init' = IF inner = 0 THEN change ELSE F_init
               /\ stage' = IF last THEN "Q" ELSE "F"
               /\ inner' = IF last THEN 0 ELSE inner + 1
               /\ visited' = IF inner = 0 THEN Append(visited, <<b, bEnd>>)
                                           ELSE visited
    /\ touched' = touched \cup BatchRows(bpos)
    /\ assigned' = assigned \cup {"A", "B", "F_prev"}
    /\ UNCHANGED <<pc, m, n, K, batch, iter, tole, threads, shuffleX, X, Q,
                   prevQ, chunk_N, chunks, batch_N, bIndex, iteration, bpos,
                   Q_init, diff, quot, Qclamp, fitSite, sweeps, diffs>>
    /\ UNCHANGED <<searchVars, llVars>>

\* Lines 107-119: one step of the acceleration loop of the Q-update of the
\* current batch: updateQ, then the row normalisation.  Leaving the loop
\* moves to the next batch, or to the convergence check after the last one.
QStep ==
    /\ pc = "sweep"
    /\ stage = "Q"
    /\ LET b == bIndex[bpos]
           nInner == BEnd(b, batch_N, n) - b
       IN  LET clamped == UpdateQ(Q, Quotients(quot, m, K))
               new == NormaliseRows(clamped)
               change == SqDist(new, Q)
               last == \/ inner + 1 >= PQ(m, nInner, K)
                       \/ (inner > 0 /\ WithinTenth(change, Q_init))
           IN  /\ Qclamp' = clamped
               /\ Q' = new
               /\ Q_init' = IF inner = 0 THEN change ELSE Q_init
               /\ inner' = IF last THEN 0 ELSE inner + 1
               /\ stage' = IF last THEN "F" ELSE "Q"
               /\ bpos' = IF last /\ bpos < Len(bIndex) THEN bpos + 1 ELSE bpos
               /\ pc' = IF last /\ bpos = Len(bIndex) THEN "check" ELSE "sweep"
               /\ sweeps' = IF last /\ bpos = Len(bIndex) THEN sweeps + 1
                                                          ELSE sweeps
    /\ assigned' = assigned \cup {"Q_prev"}
    /\ UNCHANGED <<m, n, K, batch, iter, tole, threads, shuffleX, X, prevQ, F,
                   chunk_N, chunks, batch_N, bIndex, iteration, F_init, diff,
                   quot, touched, fitSite, diffs, visited>>
    /\ UNCHANGED <<searchVars, llVars>>

\* Lines 121-128 and the loop header of line 85: measure the change of Q
\* over the sweep, stop when it is below tole or the budget is used up.
ConvergenceCheck ==
    /\ pc = "check"
    /\ diff' = SqDist(Q, prevQ)
    /\ LET converged == BelowTole(diff', m * K, tole)
       IN  /\ diffs' = Append(diffs, diff')
           /\ IF converged
              THEN /\ pc' = "del"
                   /\ UNCHANGED <<prevQ, iteration, bpos, visited, quot>>
              ELSE /\ prevQ' = Q
                   /\ IF iteration < iter
                      THEN /\ iteration' = iteration + 1
                           /\ bpos' = 1
                           /\ visited' = <<>>
                           /\ quot' \in Profiles
                           /\ pc' = "sweep"
                      ELSE /\ pc' = "del"
                           /\ UNCHANGED <<iteration, bpos, visited, quot>>
    /\ UNCHANGED <<m, n, K, batch, iter, tole, threads, shuffleX, X, Q, F,
                   chunk_N, chunks, batch_N, bIndex, stage, inner, F_init,
                   Q_init, assigned, Qclamp, touched, fitSite, sweeps>>
    /\ UNCHANGED <<searchVars, llVars>>

\* Line 130: "del prevQ, A, B, F_prev, Q_prev" raises UnboundLocalError when
\* one of the names was never assigned.
Del ==
    /\ pc = "del"
    /\ pc' = IF {"prevQ", "A", "B", "F_prev", "Q_prev"} \subseteq assigned
             THEN "finalize" ELSE "error"
    /\ UNCHANGED <<m, n, K, batch, iter, tole, threads, shuffleX, X, Q, prevQ,
                   F, chunk_N, chunks, batch_N, bIndex, iteration, bpos,
                   stage, inner, F_init, Q_init, diff, assigned, quot,
                   Qclamp, touched, fitSite, sweeps, diffs, visited>>
    /\ UNCHANGED <<searchVars, llVars>>

\* Lines 132-144: undo the shuffle, evaluate the objective and the
\* log-likelihood (see logLike_admix below), return Q, F, logLike.
Finalize ==
    /\ pc = "finalize"
    /\ F' = Reindex(F, ArgSort(shuffleX))
    /\ X' = Reindex(X, ArgSort(shuffleX))
    /\ fitSite' = Reindex(fitSite, ArgSort(shuffleX))
    /\ pc' = "done"
    /\ UNCHANGED <<m, n, K, batch, iter, tole, threads, shuffleX, Q, prevQ,
                   chunk_N, chunks, batch_N, bIndex, iteration, bpos, stage,
                   inner, F_init, Q_init, diff, assigned, quot, Qclamp,
                   touched, sweeps, diffs, visited>>
    /\ UNCHANGED <<searchVars, llVars>>

NmfNext ==
    \/ FStep
    \/ QStep
    \/ ConvergenceCheck
    \/ Del
    \/ Finalize

(***************************************************************************)
(* logLike_admix: one thread per chunk of individuals adds the terms of    *)
(* its individuals into the shared array logLike_inds; the caller starts   *)
(* the threads, joins them, and sums the array.                            *)
(***************************************************************************)

\* log(like0 + like1 + like2) for individual i at site s (lines 22-25),
\* both 0-based.  The value depends on likeMatrix and Pi, which are inputs:
\* distinct powers of two stand for the terms, so that a sum tells which
\* terms went into it.
LogTerm(i, s, nn) == Pow2(i * nn + s)

\* min(S + N, m), the end of a thread's range (line 20).
RangeEnd(S, N, mm) == Min(S + N, mm)

Workers == 1..threads

\* Lines 29-34 (and 77-78 of the caller): the accumulator is zero and the
\* threads are created, none started.
LLInit ==
    /\ m \in 1..MaxInd
    /\ n \in 1..MaxLLSites
    /\ threads \in 1..MaxThreads
    /\ chunk_N = ChunkN(m, threads)
    /\ chunks = Chunks(m, threads)
    /\ pcL = "start"
    /\ started = 0
    /\ joined = 0
    /\ wstate = [w \in Workers |-> "new"]
    /\ ind = [w \in Workers |-> chunks[w]]
    /\ site = [w \in Workers |-> 0]
    /\ held = [w \in Workers |-> -1]
    /\ logLike_inds = [i \in 1..m |-> 0]
    /\ total = 0
    /\ writers = [i \in 1..m |-> {}]

\* Lines 35-36: thread.start() for the next thread.
StartThread ==
    /\ pcL = "start"
    /\ started < threads
    /\ started' = started + 1
    /\ wstate' = [wstate EXCEPT ![started + 1] = "running"]
    /\ pcL' = IF started + 1 = threads THEN "join" ELSE "start"
    /\ UNCHANGED <<joined, ind, site, held, logLike_inds, total, writers>>
    /\ UNCHANGED <<searchVars, nmfVars>>

\* Line 25, first half of "L[ind] += ...": the thread reads L[ind].
WorkerRead(w) ==
    /\ wstate[w] = "running"
    /\ ind[w] < RangeEnd(chunks[w], chunk_N, m)
    /\ held[w] = -1
    /\ held' = [held EXCEPT ![w] = logLike_inds[ind[w] + 1]]
    /\ UNCHANGED <<pcL, started, joined, wstate, ind, site, logLike_inds,
                   total, writers>>
    /\ UNCHANGED <<searchVars, nmfVars>>

\* Line 25, second half: the thread writes L[ind]; lines 20-21: it moves to
\* the next site, or to the next individual after the last site.
WorkerWrite(w) ==
    /\ wstate[w] = "running"
    /\ held[w] # -1
    /\ logLike_inds' = [logLike_inds EXCEPT
                          ![ind[w] + 1] = held[w] + LogTerm(ind[w], site[w], n)]
    /\ writers' = [writers EXCEPT ![ind[w] + 1] = @ \cup {w}]
    /\ held' = [held EXCEPT ![w] = -1]
    /\ IF site[w] + 1 < n
       THEN /\ site' = [site EXCEPT ![w] = @ + 1]
            /\ UNCHANGED ind
       ELSE /\ site' = [site EXCEPT ![w] = 0]
            /\ ind' = [ind EXCEPT ![w] = @ + 1]
    /\ UNCHANGED <<pcL, started, joined, wstate, total>>
    /\ UNCHANGED <<searchVars, nmfVars>>

\* Line 20: the range of the thread is exhausted (or empty) and it ends.
WorkerExit(w) ==
    /\ wstate[w] = "running"
    /\ ind[w] >= RangeEnd(chunks[w], chunk_N, m)
    /\ wstate' = [wstate EXCEPT ![w] = "finished"]
    /\ UNCHANGED <<pcL, started, joined, ind, site, held, logLike_inds,
                   total, writers>>
    /\ UNCHANGED <<searchVars, nmfVars>>

\* Lines 37-38: thread.join() returns once the thread has ended.
JoinThread ==
    /\ pcL = "join"
    /\ joined < threads
    /\ wstate[joined + 1] = "finished"
    /\ joined' = joined + 1
    /\ pcL' = IF joined + 1 = threads THEN "sum" ELSE "join"
    /\ UNCHANGED <<started, wstate, ind, site, held, logLike_inds, total,
                   writers>>
    /\ UNCHANGED <<searchVars, nmfVars>>

\* Line 40: return np.sum(logLike_inds).
SumUp ==
    /\ pcL = "sum"
    /\ total' = SumSeq(logLike_inds)
    /\ pcL' = "returned"
    /\ UNCHANGED <<started, joined, wstate, ind, site, held, logLike_inds,
                   writers>>
    /\ UNCHANGED <<searchVars, nmfVars>>

LLNext ==
    \/ StartThread
    \/ \E w \in Workers : WorkerRead(w)
    \/ \E w \in Workers : WorkerWrite(w)
    \/ \E w \in Workers : WorkerExit(w)
    \/ JoinThread
    \/ SumUp

(***************************************************************************)
(* Specifications.  Each one follows one function; the variables of the    *)
(* other functions rest in their idle state.                               *)
(***************************************************************************)

\* alphaSearch before it is called: the state of its variables while a
\* single fit is looked at.
SearchIdle ==
    /\ pcS = "idle"
    /\ aEnd = 0 /\ depth = 0 /\ aMin = 0 /\ aMax = 0 /\ aMid = 0 /\ aStep = 0
    /\ argL = 0 /\ aBest = 0 /\ L_best = 0 /\ Q_best = 0 /\ F_best = 0
    /\ d = 0 /\ runs = <<>>

\* admixNMF before it is called.
FitIdle ==
    /\ pc = "idle"
    /\ K = 0 /\ batch = 0 /\ iter = 0 /\ tole = 0
    /\ shuffleX = <<>> /\ X = <<>> /\ Q = <<>>
    /\ prevQ = <<>> /\ F = <<>>
    /\ batch_N = 0 /\ bIndex = <<>> /\ iteration = 0 /\ bpos = 0
    /\ stage = "F" /\ inner = 0
    /\ F_init = [h |-> 0, l |-> 0] /\ Q_init = [h |-> 0, l |-> 0]
    /\ diff = [h |-> 0, l |-> 0]
    /\ assigned = {} /\ quot = "keep" /\ Qclamp = <<>> /\ touched = {} /\ fitSite = <<>>
    /\ sweeps = 0 /\ diffs = <<>> /\ visited = <<>>

NmfIdle ==
    /\ FitIdle
    /\ m = 0 /\ n = 0 /\ threads = 0 /\ chunk_N = 0 /\ chunks = <<>>

\* logLike_admix before it is called.
LLIdle ==
    /\ pcL = "idle" /\ started = 0 /\ joined = 0
    /\ wstate = <<>> /\ ind = <<>> /\ site = <<>> /\ held = <<>>
    /\ logLike_inds = <<>> /\ total = 0 /\ writers = <<>>

\* One fit by admixNMF.
Init == NmfInit /\ SearchIdle /\ LLIdle
Next == NmfNext
Spec == Init /\ [][Next]_vars

\* One fit of a single sweep, for every draw of the permutation.
InitShuffle == ShuffleInit /\ SearchIdle /\ LLIdle
SpecShuffle == InitShuffle /\ [][Next]_vars

\* One fit of a single sweep, for every division of the sites into batches.
InitBatch == BatchInit /\ SearchIdle /\ LLIdle
SpecBatch == InitBatch /\ [][Next]_vars

\* One call of alphaSearch.
InitSearch == SearchInit /\ NmfIdle /\ LLIdle
SpecSearch == InitSearch /\ [][SearchNext]_vars

\* One call of logLike_admix.
InitLogLike == LLInit /\ FitIdle /\ SearchIdle
SpecLogLike == InitLogLike /\ [][LLNext]_vars

(***************************************************************************)
(* Claims about alphaSearch, checked under SpecSearch.                     *)
(***************************************************************************)

RunIds == 1..Len(runs)

\* C1: when alphaSearch returns (Q_best, F_best, aBest), Q_best and F_best
\* are the matrices of one and the same fit, that fit was made at aBest, and
\* its log-likelihood is at least that of every fit the search performed.
C1_BestIsMax ==
    pcS = "returned" =>
        /\ Q_best \in RunIds
        /\ F_best = Q_best
        /\ runs[Q_best].alpha = aBest
        /\ runs[Q_best].L = L_best
        /\ \A i \in RunIds : runs[Q_best].L >= runs[i].L

\* C1 witness: a search of depth >= 2 has returned a best fit that is not
\* the first one and that beat an earlier best.
C1_Witness ==
    /\ pcS = "returned"
    /\ depth >= 2
    /\ Q_best > 3
    /\ \E i \in RunIds : runs[i].L > runs[1].L /\ runs[i].L < L_best

\* C8 as stated: every alpha handed to admixNMF lies in [0, aEnd].
C8_Original ==
    \A i \in RunIds : 0 <= runs[i].alpha /\ runs[i].alpha <= aEnd

\* C8 amended: every alpha handed to admixNMF is >= 0; the three fits of
\* the first search lie in [0, aEnd]; a refinement round may go above aEnd
\* but stays below 3/2 aEnd (at 0 when aEnd = 0).
C8_Bounded ==
    \A i \in RunIds :
        /\ 0 <= runs[i].alpha
        /\ runs[i].round = 1 => runs[i].alpha <= aEnd
        /\ 2 * runs[i].alpha <= 3 * aEnd
        /\ aEnd > 0 => 2 * runs[i].alpha < 3 * aEnd

\* C8 witness: a refinement round has fitted an alpha above aEnd.
C8_Witness ==
    \E i \in RunIds : runs[i].round >= 2 /\ runs[i].alpha > aEnd

\* The state part of C10: a round that started with aMin = 0 made exactly
\* one fit, the midpoint, at half the midpoint fitted in the round before.
C10_OneMidpointFit ==
    \A i \in RunIds :
        (runs[i].round >= 2 /\ runs[i].lb0) =>
            /\ runs[i].role = "mid"
            /\ \A j \in RunIds : runs[j].round = runs[i].round => j = i
            /\ \E j \in RunIds :
                /\ runs[j].round = runs[i].round - 1
                /\ runs[j].role = "mid"
                /\ 2 * runs[i].alpha = runs[j].alpha

\* C10: once aMin is 0 at the start of a refinement round it is 0 at the
\* start of every later round, and every such round makes exactly one fit,
\* at the midpoint, which is half of the midpoint fitted in the round before.
C10_OneSidedHalving ==
    /\ [][(pcS = "round" /\ aMin = 0) => (aMin' = 0)]_vars
    /\ [](pcS \in {"round", "returned"} => C10_OneMidpointFit)

\* C10 witness: two consecutive one-sided rounds with aEnd > 0, the first of
\* which made its midpoint the new best.
C10_Witness ==
    /\ pcS = "returned"
    /\ aEnd > 0
    /\ \E i, j \in RunIds :
        /\ runs[i].round = 2 /\ runs[i].lb0 /\ runs[i].alpha = aBest
        /\ runs[j].round = 3 /\ runs[j].lb0 /\ runs[j].alpha > 0

(***************************************************************************)
(* Claims about admixNMF.                                                  *)
(***************************************************************************)

InFit == pc \in {"sweep", "check", "del", "finalize", "done", "error"}
InRange(x) == Eps <= x /\ x <= Scale - Eps

\* A row sums to 1 up to the rounding of the division that normalised it:
\* less than one unit per entry.
RowSumsToOne(row) ==
    SumSeq(row) <= Scale /\ Scale - SumSeq(row) < Len(row)

\* C2 (checked under Spec): every row of Q sums to 1, within rounding, when
\* the outer loop is entered, after every Q-update step of every batch of
\* every outer iteration, and in the Q that is returned.
C2_RowsSumToOne ==
    InFit => \A i \in 1..m : RowSumsToOne(Q[i])

\* C2 witness: a fit of two sweeps has returned, and a Q-update step of it
\* rescaled a row whose clamped entries summed to more than 1.
C2_Witness ==
    /\ pc = "done"
    /\ sweeps = 2
    /\ Qclamp # <<>>
    /\ \E i \in 1..m : SumSeq(Qclamp[i]) > Scale /\ Q[i] # Qclamp[i]

\* C3 as stated (Spec): after every F-update step and every Q-update step
\* (clamp, then row normalisation) every entry of the updated F batch and
\* every entry of Q lies in [1e-4, 1-1e-4].
C3_Original ==
    /\ \A s \in touched : \A k \in 1..K : InRange(F[s][k])
    /\ Qclamp # <<>> => \A i \in 1..m : \A k \in 1..K : InRange(Q[i][k])

\* C3 amended (Spec): every entry of the updated F batch lies in
\* [1e-4, 1-1e-4], and so does every entry of Q as the clamp of updateQ
\* leaves it; after the row normalisation an entry of Q is at most 1-1e-4
\* and at least 1e-4 / (1e-4 + (K-1)*(1-1e-4)), to within one unit of the
\* fixed-point resolution, which is 1e-4 when K = 2.
C3_ClampedThenNormalised ==
    /\ \A s \in touched : \A k \in 1..K : InRange(F[s][k])
    /\ Qclamp # <<>> =>
        \A i \in 1..m : \A k \in 1..K :
            /\ InRange(Qclamp[i][k])
            /\ (Q[i][k] + 1) * (Eps + (K - 1) * (Scale - Eps)) > Eps * Scale
            /\ Q[i][k] <= Scale - Eps
            /\ K = 2 => Eps <= Q[i][k]

\* C3 witness: with K = 3 a Q-update step has left an entry of Q below 1e-4
\* that the clamp had set to 1e-4, and an F batch has been updated.
C3_Witness ==
    /\ K = 3
    /\ touched # {}
    /\ Qclamp # <<>>
    /\ \E i \in 1..m : \E k \in 1..K : Qclamp[i][k] = Eps /\ Q[i][k] < Eps

\* C4 (SpecShuffle): for every permutation drawn at line 67, after the
\* re-indexing by argsort(shuffleX) row s of the returned F is the row that
\* was fitted to input site s, and column s of X is column s of the input.
C4_UnshuffleIsInverse ==
    pc = "done" => \A s \in 1..n : X[s] = s /\ fitSite[s] = s

\* C4 witness: a fit has returned whose shuffle was a permutation that is
\* not its own inverse, so that the columns were out of place during the fit.
C4_Witness ==
    /\ pc = "done"
    /\ n >= 3
    /\ \E s \in 1..n : shuffleX[shuffleX[s]] # s

\* Whether the RMSD that belongs to the squared distance dd is below tole:
\* 4*dd.h + dd.l < tole^2 * m * K, compared limb by limb.
RmsdBelowTole(dd) ==
    LET x == tole * tole * m * K
        hh == dd.h + dd.l \div 4
        ll == dd.l % 4
    IN  hh < x \div 4 \/ (hh = x \div 4 /\ ll < x % 4)

\* The number of sweeps the claim C5 predicts: the index of the first sweep
\* whose RMSD is below tole, or iter when there is none.
PredictedSweeps ==
    IF \E j \in 1..Len(diffs) : RmsdBelowTole(diffs[j])
    THEN CHOOSE j \in 1..Len(diffs) :
            /\ RmsdBelowTole(diffs[j])
            /\ \A i \in 1..(j - 1) : ~RmsdBelowTole(diffs[i])
    ELSE iter

\* C5 (Spec): for iter >= 1, once the outer loop is left the number of
\* sweeps executed is the index of the first sweep whose Q-RMSD against the
\* previous Q is below tole, or iter when no sweep has one; when the first
\* sweep's RMSD is below tole exactly one sweep is executed.
C5_SweepCount ==
    (iter >= 1 /\ pc \in {"del", "finalize", "done"}) =>
        /\ sweeps = Len(diffs)
        /\ sweeps = PredictedSweeps
        /\ RmsdBelowTole(diffs[1]) => sweeps = 1

\* C5 witness: a fit has returned that stopped at its second sweep because
\* the first RMSD was not below tole and the second was.
C5_Witness ==
    /\ pc = "done"
    /\ sweeps = 2
    /\ tole > 0
    /\ ~RmsdBelowTole(diffs[1])
    /\ RmsdBelowTole(diffs[2])

\* C6 (Spec): no fit ends in an error, whatever the tolerance and the
\* iteration budget, a budget of no iteration at all included.
C6_NoError ==
    pc # "error"

\* C7 as stated (SpecBatch): the blocks of a sweep are contiguous, disjoint,
\* of size ceil(n/B) but for a shorter last one, cover every site once, and
\* number B when n >= B and n when n < B.
BlockSize == CHOOSE c \in 1..n : c * batch >= n /\ (c - 1) * batch < n

BlocksTile ==
    /\ Len(visited) >= 1
    /\ visited[1][1] = 0
    /\ visited[Len(visited)][2] = n
    /\ \A j \in 1..(Len(visited) - 1) :
        /\ visited[j + 1][1] = visited[j][2]
        /\ visited[j][2] - visited[j][1] = BlockSize
    /\ LET last == visited[Len(visited)]
       IN  1 <= last[2] - last[1] /\ last[2] - last[1] <= BlockSize
    /\ \A s \in 0..(n - 1) :
        Cardinality({j \in 1..Len(visited) :
            visited[j][1] <= s /\ s < visited[j][2]}) = 1

C7_Original ==
    pc \in {"check", "del", "finalize", "done"} =>
        /\ BlocksTile
        /\ Len(visited) = IF n >= batch THEN batch ELSE n

\* C7 amended (SpecBatch): the blocks of a sweep are contiguous, disjoint,
\* of size ceil(n/B) but for a last one that may be shorter, and cover every
\* site once; there are ceil(n / ceil(n/B)) of them, which is at most B, is
\* B when B divides n, and is n (one site each) when n <= B; no fit fails.
C7_BlocksTileSites ==
    /\ pc # "error"
    /\ pc \in {"check", "del", "finalize", "done"} =>
        /\ BlocksTile
        /\ Len(visited) <= batch
        /\ (Len(visited) - 1) * BlockSize < n
        /\ n <= Len(visited) * BlockSize
        /\ n % batch = 0 => Len(visited) = batch
        /\ n <= batch => (Len(visited) = n /\ BlockSize = 1)

\* C7 witness: a sweep is over that had fewer blocks than the batch count
\* although there are more sites than batches, the last block being short.
C7_Witness ==
    /\ pc = "done"
    /\ n > batch
    /\ Len(visited) < batch
    /\ visited[Len(visited)][2] - visited[Len(visited)][1] < BlockSize

(***************************************************************************)
(* Claims about logLike_admix, checked under SpecLogLike.                  *)
(***************************************************************************)

\* The sum a single sequential pass over all individuals and sites gives.
SequentialTotal ==
    SumSeq([j \in 1..(m * n) |-> LogTerm((j - 1) \div n, (j - 1) % n, n)])

\* C9: for every m, every thread count (more threads than individuals and
\* counts that do not divide m included) and every interleaving, no slot of
\* the accumulator is written by two threads, the sum is taken only after
\* every thread has ended and been joined, every individual has then been
\* accumulated by exactly one thread, and the total returned is the sum of a
\* sequential pass.
C9_RaceFreeReduction ==
    /\ pcL # "idle" => \A i \in 1..m : Cardinality(writers[i]) <= 1
    /\ pcL \in {"sum", "returned"} =>
        /\ joined = threads
        /\ \A w \in Workers : wstate[w] = "finished"
        /\ \A i \in 1..m : Cardinality(writers[i]) = 1
    /\ pcL = "returned" => total = SequentialTotal

\* C9 witness: the total has been returned by several threads whose count
\* does not divide the number of individuals.
C9_Witness ==
    /\ pcL = "returned"
    /\ threads >= 2
    /\ m >= 2
    /\ m % threads # 0
    /\ total > 0

====
